---------------------------- MODULE Spec2Model ----------------------------
(***************************************************************************)
(* Model of src/app/app.py: a Flask application whose four routes           *)
(* (/, /api/hello, /api/data, /api/slow) are instrumented with spans, a     *)
(* request counter and a duration histogram, and whose telemetry leaves    *)
(* the process through a BatchSpanProcessor and a                           *)
(* PeriodicExportingMetricReader running beside the request handlers.      *)
(*                                                                         *)
(* Each handler is a straight-line program (a sequence of instructions,    *)
(* one per statement of the source); worker threads of the server execute  *)
(* one instruction per step, so every interleaving of concurrent requests  *)
(* is explored.  An exception may be raised by any statement that calls    *)
(* out of the handler and the telemetry API (time.sleep, random, jsonify); *)
(* it unwinds the handler's `with` blocks and reaches the request-serving  *)
(* layer.                                                                  *)
(*                                                                         *)
(* Abstractions: wall-clock time is the time the handler itself slept;     *)
(* the histogram keeps the number and the sum of its samples per endpoint; *)
(* the server span that FlaskInstrumentor wraps around each request is not *)
(* modelled, so a handler's outermost span has parent 0.                    *)
(***************************************************************************)
EXTENDS Integers, Sequences, FiniteSets, TLC

VARIABLES
    status,     \* per worker thread: "idle", "run", "raise", "done"
    route,      \* per thread: the route of its current (or last) request
    pc,         \* per thread: index of the next instruction of the handler
    rid,        \* per thread: the id of its current (or last) request
    loc,        \* per thread: the handler's local variables
    stack,      \* per thread: the spans of the `with` blocks entered (the context)
    exc,        \* per thread: the exception in flight, or None
    resp,       \* per thread: what the request-serving layer received
    spans,      \* every span ever started, by span id (request id, variable)
    counter,    \* http_requests_total, per endpoint label
    hist,       \* http_request_duration_seconds, per endpoint label
    succeeded,  \* per route: requests the layer saw return a response
    failed,     \* per route: requests the layer saw raise
    started,    \* requests dispatched so far
    faults,     \* exceptions raised into handlers so far
    queue,      \* BatchSpanProcessor: the ended spans waiting for the next batch
    batch,      \* BatchSpanProcessor worker: the batch being exported
    flushPc,    \* BatchSpanProcessor worker: "idle" or "exporting"
    metricPc,   \* PeriodicExportingMetricReader: "idle" or "exporting"
    exporter,   \* the collector endpoint: "up", "down" (refusing) or "hung"
    thrown,     \* per thread: the exception raised into its current request
    warned      \* a diagnostic was logged for an operation on an ended span

vars == <<status, route, pc, rid, loc, stack, exc, resp, spans, counter, hist,
          succeeded, failed, started, faults, queue, batch, flushPc, metricPc,
          exporter, thrown, warned>>

-----------------------------------------------------------------------------
(* Bounds *)

MaxRequests == 2
MaxFaults == 1

Threads == {"t1", "t2"}
Errors == {"ErrA", "ErrB"}
RandInts == {1, 100}
SleepTimes == {1004, 1996}
ExporterStates == {"up", "down", "hung"}

None == "none"
NoSpan == <<0, "none">>

-----------------------------------------------------------------------------
(* The handlers, one instruction per statement *)

Routes == {"/", "/api/hello", "/api/data", "/api/slow"}

I(op, a, b, c) == [op |-> op, a |-> a, b |-> b, c |-> c]

\* home, with the endpoint label of another handler pasted in
home_wrong_label ==
    << I("add", "/api/hello", "GET", ""),
       I("jsonify", "home", "", ""),
       I("return", "", "", "") >>

home ==
    << I("add", "/", "GET", ""),
       I("jsonify", "home", "", ""),
       I("return", "", "", "") >>

\* hello, recording the duration once the `with` block is left
hello_record_after_close ==
    << I("time_start", "", "", ""),
       I("enter", "hello_handler", "span", ""),
       I("set_attribute", "span", "endpoint", "/api/hello"),
       I("response", "World", "", ""),
       I("add", "/api/hello", "GET", ""),
       I("exit", "span", "", ""),
       I("duration", "", "", ""),
       I("record", "/api/hello", "", ""),
       I("jsonify", "response", "", ""),
       I("return", "", "", "") >>

hello ==
    << I("time_start", "", "", ""),
       I("enter", "hello_handler", "span", ""),
       I("set_attribute", "span", "endpoint", "/api/hello"),
       I("response", "World", "", ""),
       I("duration", "", "", ""),
       I("add", "/api/hello", "GET", ""),
       I("record", "/api/hello", "", ""),
       I("jsonify", "response", "", ""),
       I("exit", "span", "", ""),
       I("return", "", "", "") >>

\* get_data, setting db.operation once the database.query block is left
get_data_late_attribute ==
    << I("time_start", "", "", ""),
       I("enter", "get_data", "span", ""),
       I("set_attribute", "span", "endpoint", "/api/data"),
       I("enter", "database.query", "db_span", ""),
       I("set_attribute", "db_span", "db.system", "postgresql"),
       I("sleep", "query", "", ""),
       I("data", "", "", ""),
       I("exit", "db_span", "", ""),
       I("set_attribute", "db_span", "db.operation", "SELECT"),
       I("duration", "", "", ""),
       I("add", "/api/data", "GET", ""),
       I("record", "/api/data", "", ""),
       I("jsonify", "data", "", ""),
       I("exit", "span", "", ""),
       I("return", "", "", "") >>

get_data ==
    << I("time_start", "", "", ""),
       I("enter", "get_data", "span", ""),
       I("set_attribute", "span", "endpoint", "/api/data"),
       I("enter", "database.query", "db_span", ""),
       I("set_attribute", "db_span", "db.system", "postgresql"),
       I("set_attribute", "db_span", "db.operation", "SELECT"),
       I("sleep", "query", "", ""),
       I("data", "", "", ""),
       I("exit", "db_span", "", ""),
       I("duration", "", "", ""),
       I("add", "/api/data", "GET", ""),
       I("record", "/api/data", "", ""),
       I("jsonify", "data", "", ""),
       I("exit", "span", "", ""),
       I("return", "", "", "") >>

slow_endpoint ==
    << I("time_start", "", "", ""),
       I("enter", "slow_operation", "span", ""),
       I("set_attribute", "span", "endpoint", "/api/slow"),
       I("sleep_time", "", "", ""),
       I("sleep", "sleep_time", "", ""),
       I("duration", "", "", ""),
       I("add", "/api/slow", "GET", ""),
       I("record", "/api/slow", "", ""),
       I("jsonify", "slow", "", ""),
       I("exit", "span", "", ""),
       I("return", "", "", "") >>

Handler(r) ==
    CASE r = "/" -> home
      [] r = "/api/hello" -> hello
      [] r = "/api/data" -> get_data
      [] r = "/api/slow" -> slow_endpoint

Instr(t) == Handler(route[t])[pc[t]]

Running(t, op) ==
    /\ status[t] = "run"
    /\ pc[t] <= Len(Handler(route[t]))
    /\ Instr(t).op = op


-----------------------------------------------------------------------------
(* Setup: the span processor and the metrics *)

\* trace_provider.add_span_processor(BatchSpanProcessor(trace_exporter)):
\* "batch" hands an ended span to a queue that a worker thread exports;
\* "sync" exports the span inside end(), on the thread that ended it.
SpanProcessorSync == "sync"

SpanProcessor == "batch"

\* time.sleep(0.05), in milliseconds
QuerySleepMs == 50

\* an increment that is lost
add_lost(c, label, n) == c

\* request_counter.add(n, {"endpoint": label, ...})
add(c, label, n) == [c EXCEPT ![label] = @ + n]

\* a sample that is recorded twice
record_twice(h, label, v) ==
    [h EXCEPT ![label] = [count |-> @.count + 2, sum |-> @.sum + v + v]]

\* request_duration.record(v, {"endpoint": label})
record(h, label, v) ==
    [h EXCEPT ![label] = [count |-> @.count + 1, sum |-> @.sum + v]]

-----------------------------------------------------------------------------
(* Spans and the ambient context *)

\* a current span kept in one process-wide variable
CurrentSpanGlobal(stk, t) ==
    LET busy == {u \in Threads : stk[u] # <<>>}
        u == CHOOSE v \in busy : TRUE
    IN  IF busy = {} THEN NoSpan ELSE stk[u][Len(stk[u])]

\* The span that is current in thread t: the innermost `with` block entered.
CurrentSpan(stk, t) ==
    IF stk[t] = <<>> THEN NoSpan ELSE stk[t][Len(stk[t])]

NewSpan(name, r, parent) ==
    [name |-> name, rid |-> r, parent |-> parent, ends |-> 0,
     status |-> "unset", attrs |-> {}, handed |-> 0]

\* span.set_attribute(k, v): ignored (with a diagnostic) once the span ended
set_attribute(sp, s, k, v) ==
    IF sp[s].ends = 0
    THEN [sp EXCEPT ![s].attrs = {p \in @ : p[1] # k} \cup {<<k, v>>}]
    ELSE sp

\* a span ended by hand after the block: not ended when an exception passes
span_exit_no_finally(sp, s, e) ==
    IF e # None THEN sp ELSE [sp EXCEPT ![s].ends = @ + 1]

\* Leaving `with tracer.start_as_current_span(...)`: an exception passing
\* through sets the span's status to error; the span is ended either way.
\* The second end() of a span changes nothing but is counted.
span_exit(sp, s, e) ==
    [sp EXCEPT ![s].status = IF e # None /\ sp[s].ends = 0 THEN "error" ELSE @,
               ![s].ends = @ + 1]

\* Whether an exception that leaves a `with` block goes on to the caller
\* (the context manager does not suppress it), and as which exception.
reraised(e) == e

\* SpanProcessor.on_end(span): the batch processor only queues the span.
on_end(q, s) == IF SpanProcessor = "batch" THEN q \cup {s} ELSE q

\* In-line export (only a "sync" processor): waits for the collector's answer, ...
EndBlocked == SpanProcessor = "sync" /\ exporter = "hung"
\* ... hands the span to the exporter, ...
EndExports == SpanProcessor = "sync"
\* ... or fails on the thread that ended the span.
EndError == IF SpanProcessor = "sync" /\ exporter = "down" THEN "ExportError" ELSE None

-----------------------------------------------------------------------------
(* Responses *)

\* round(sleep_time, 2), sleep_time in milliseconds, result in hundredths
round2(ms) == (ms + 5) \div 10

Payload(kind, l) ==
    CASE kind = "home" ->
            [message |-> "Dynatrace OpenTelemetry Lab", status |-> "running",
             endpoints |-> <<"/", "/api/hello", "/api/data", "/api/slow">>]
      [] kind = "response" -> l.response
      [] kind = "data" -> [data |-> l.data]
      [] kind = "slow" ->
            [message |-> "Slow operation completed",
             duration |-> round2(l.sleep_time)]

jsonify(v) == [status |-> 200, body |-> v, error |-> None]

\* What the request-serving layer makes of an exception leaving a handler.
ServerError(e) ==
    [status |-> 500, body |-> [message |-> "Internal Server Error"], error |-> e]

NoResp == [status |-> 0, body |-> [message |-> ""], error |-> None]

NoLocals ==
    [start |-> FALSE, span |-> NoSpan, db_span |-> NoSpan, response |-> [message |-> ""],
     data |-> <<>>, sleep_time |-> 0, elapsed |-> 0, duration |-> 0, ret |-> NoResp]

-----------------------------------------------------------------------------
Init ==
    /\ status = [t \in Threads |-> "idle"]
    /\ route = [t \in Threads |-> "/"]
    /\ pc = [t \in Threads |-> 1]
    /\ rid = [t \in Threads |-> 0]
    /\ loc = [t \in Threads |-> NoLocals]
    /\ stack = [t \in Threads |-> <<>>]
    /\ exc = [t \in Threads |-> None]
    /\ resp = [t \in Threads |-> NoResp]
    /\ spans = <<>>
    /\ counter = [r \in Routes |-> 0]
    /\ hist = [r \in Routes |-> [count |-> 0, sum |-> 0]]
    /\ succeeded = [r \in Routes |-> 0]
    /\ failed = [r \in Routes |-> 0]
    /\ started = 0
    /\ faults = 0
    /\ queue = {}
    /\ batch = {}
    /\ flushPc = "idle"
    /\ metricPc = "idle"
    /\ exporter = "up"
    /\ thrown = [t \in Threads |-> None]
    /\ warned = FALSE

telemetry == <<spans, counter, hist, queue, warned>>
background == <<batch, flushPc, metricPc, exporter>>
layer == <<resp, succeeded, failed>>
dispatch == <<route, rid, started>>

Advance(t) == pc' = [pc EXCEPT ![t] = @ + 1]

-----------------------------------------------------------------------------
(* The request-serving layer dispatches a request to a free worker thread *)

Before(u, t) == u = "t1" /\ t = "t2"

Free(t) == status[t] \in {"idle", "done"}

\* (the free thread that comes first: which thread serves is immaterial)
Begin(t, r) ==
    /\ Free(t)
    /\ \A u \in Threads : Free(u) => ~ Before(u, t)
    /\ started < MaxRequests
    /\ started' = started + 1
    /\ rid' = [rid EXCEPT ![t] = started + 1]
    /\ route' = [route EXCEPT ![t] = r]
    /\ pc' = [pc EXCEPT ![t] = 1]
    /\ status' = [status EXCEPT ![t] = "run"]
    /\ loc' = [loc EXCEPT ![t] = NoLocals]
    /\ resp' = [resp EXCEPT ![t] = NoResp]
    /\ thrown' = [thrown EXCEPT ![t] = None]
    /\ UNCHANGED <<stack, exc, succeeded, failed, faults, telemetry, background>>

(* The handlers' statements *)

\* start = time.time()
TimeStart(t) ==
    /\ Running(t, "time_start")
    /\ loc' = [loc EXCEPT ![t].start = TRUE]
    /\ Advance(t)
    /\ UNCHANGED <<status, stack, exc, thrown, faults, dispatch, layer, telemetry, background>>

\* with tracer.start_as_current_span(name) as var:
Enter(t) ==
    /\ Running(t, "enter")
    /\ LET s == <<rid[t], Instr(t).b>> IN
        /\ spans' = spans @@ (s :> NewSpan(Instr(t).a, rid[t], CurrentSpan(stack, t)))
        /\ stack' = [stack EXCEPT ![t] = Append(@, s)]
        /\ loc' = [loc EXCEPT ![t][Instr(t).b] = s]
    /\ Advance(t)
    /\ UNCHANGED <<status, exc, thrown, faults, dispatch, layer, counter, hist, queue,
                   warned, background>>

\* var.set_attribute(key, value)
SetAttribute(t) ==
    /\ Running(t, "set_attribute")
    /\ LET s == loc[t][Instr(t).a] IN
        /\ spans' = set_attribute(spans, s, Instr(t).b, Instr(t).c)
        /\ warned' = (warned \/ spans[s].ends > 0)
    /\ Advance(t)
    /\ UNCHANGED <<status, loc, stack, exc, thrown, faults, dispatch, layer, counter,
                   hist, queue, background>>

\* name = "World"; response = {"message": f"Hello, {name}!"}
BuildResponse(t) ==
    /\ Running(t, "response")
    /\ loc' = [loc EXCEPT ![t].response = [message |-> "Hello, " \o Instr(t).a \o "!"]]
    /\ Advance(t)
    /\ UNCHANGED <<status, stack, exc, thrown, faults, dispatch, layer, telemetry, background>>

\* data = [{"id": i, "value": random.randint(1, 100)} for i in 1..3],
\* the three draws being v1, v2, v3
QueryData(t, v1, v2, v3) ==
    /\ Running(t, "data")
    /\ loc' = [loc EXCEPT ![t].data =
                  << [id |-> 1, value |-> v1], [id |-> 2, value |-> v2],
                     [id |-> 3, value |-> v3] >>]
    /\ Advance(t)
    /\ UNCHANGED <<status, stack, exc, thrown, faults, dispatch, layer, telemetry, background>>

\* sleep_time = random.uniform(1.0, 2.0), the draw being ms milliseconds
ChooseSleep(t, ms) ==
    /\ Running(t, "sleep_time")
    /\ loc' = [loc EXCEPT ![t].sleep_time = ms]
    /\ Advance(t)
    /\ UNCHANGED <<status, stack, exc, thrown, faults, dispatch, layer, telemetry, background>>

\* time.sleep(0.05) / time.sleep(sleep_time)
Sleep(t) ==
    /\ Running(t, "sleep")
    /\ LET ms == IF Instr(t).a = "query" THEN QuerySleepMs ELSE loc[t].sleep_time
       IN loc' = [loc EXCEPT ![t].elapsed = @ + ms]
    /\ Advance(t)
    /\ UNCHANGED <<status, stack, exc, thrown, faults, dispatch, layer, telemetry, background>>

\* duration = (time.time() - start) * 1000
Duration(t) ==
    /\ Running(t, "duration")
    /\ loc' = [loc EXCEPT ![t].duration = loc[t].elapsed]
    /\ Advance(t)
    /\ UNCHANGED <<status, stack, exc, thrown, faults, dispatch, layer, telemetry, background>>

\* request_counter.add(1, {"endpoint": label, "method": "GET"})
CounterAdd(t) ==
    /\ Running(t, "add")
    /\ counter' = add(counter, Instr(t).a, 1)
    /\ Advance(t)
    /\ UNCHANGED <<status, loc, stack, exc, thrown, faults, dispatch, layer, spans, hist,
                   queue, warned, background>>

\* request_duration.record(duration, {"endpoint": label})
HistRecord(t) ==
    /\ Running(t, "record")
    /\ hist' = record(hist, Instr(t).a, loc[t].duration)
    /\ Advance(t)
    /\ UNCHANGED <<status, loc, stack, exc, thrown, faults, dispatch, layer, spans,
                   counter, queue, warned, background>>

\* the operand of `return jsonify(...)` is evaluated
Jsonify(t) ==
    /\ Running(t, "jsonify")
    /\ loc' = [loc EXCEPT ![t].ret = jsonify(Payload(Instr(t).a, loc[t]))]
    /\ Advance(t)
    /\ UNCHANGED <<status, stack, exc, thrown, faults, dispatch, layer, telemetry, background>>


\* the span of the innermost `with` block thread t is in
Innermost(t) == stack[t][Len(stack[t])]

\* Ending span s on thread t: the span is closed and handed to the processor.
Ended(s, e) ==
    LET closed == span_exit(spans, s, e)
    IN  /\ spans' = IF EndExports /\ spans[s].ends = 0
                    THEN [closed EXCEPT ![s].handed = @ + 1] ELSE closed
        /\ queue' = IF spans[s].ends = 0 THEN on_end(queue, s) ELSE queue

\* the end of a `with` block reached normally
Exit(t) ==
    /\ Running(t, "exit")
    /\ ~EndBlocked
    /\ Ended(Innermost(t), None)
    /\ stack' = [stack EXCEPT ![t] = SubSeq(@, 1, Len(@) - 1)]
    /\ IF EndError = None
       THEN Advance(t) /\ UNCHANGED <<status, exc>>
       ELSE /\ exc' = [exc EXCEPT ![t] = EndError]
            /\ status' = [status EXCEPT ![t] = "raise"]
            /\ UNCHANGED pc
    /\ UNCHANGED <<loc, thrown, faults, dispatch, layer, counter, hist, warned,
                   background>>

\* the handler returns: the request-serving layer has the response
Return(t) ==
    /\ Running(t, "return")
    /\ resp' = [resp EXCEPT ![t] = loc[t].ret]
    /\ succeeded' = [succeeded EXCEPT ![route[t]] = @ + 1]
    /\ status' = [status EXCEPT ![t] = "done"]
    /\ loc' = [loc EXCEPT ![t] = NoLocals]
    /\ UNCHANGED <<pc, stack, exc, thrown, failed, faults, dispatch,
                   telemetry, background>>

(* Exceptions *)

\* The statements that call out of the handler and the telemetry API
\* (time.sleep, random.randint, random.uniform, jsonify) may raise.
MayRaise == {"sleep", "data", "sleep_time", "jsonify"}

\* an exception is raised by the statement the handler is at
Raise(t, e) ==
    /\ status[t] = "run"
    /\ Instr(t).op \in MayRaise
    /\ faults < MaxFaults
    /\ faults' = faults + 1
    /\ exc' = [exc EXCEPT ![t] = e]
    /\ thrown' = [thrown EXCEPT ![t] = e]
    /\ status' = [status EXCEPT ![t] = "raise"]
    /\ UNCHANGED <<pc, loc, stack, dispatch, layer, telemetry, background>>

\* the exception leaves the innermost `with` block
Unwind(t) ==
    /\ status[t] = "raise"
    /\ stack[t] # <<>>
    /\ ~EndBlocked
    /\ Ended(Innermost(t), exc[t])
    /\ stack' = [stack EXCEPT ![t] = SubSeq(@, 1, Len(@) - 1)]
    /\ exc' = [exc EXCEPT ![t] = IF EndError = None THEN reraised(@) ELSE EndError]
    /\ UNCHANGED <<status, pc, loc, thrown, faults, dispatch, layer, counter,
                   hist, warned, background>>

\* the exception leaves the handler: the request-serving layer has it
Fail(t) ==
    /\ status[t] = "raise"
    /\ stack[t] = <<>>
    /\ resp' = [resp EXCEPT ![t] = ServerError(exc[t])]
    /\ failed' = [failed EXCEPT ![route[t]] = @ + 1]
    /\ exc' = [exc EXCEPT ![t] = None]
    /\ status' = [status EXCEPT ![t] = "done"]
    /\ loc' = [loc EXCEPT ![t] = NoLocals]
    /\ UNCHANGED <<pc, stack, thrown, succeeded, faults, dispatch,
                   telemetry, background>>

-----------------------------------------------------------------------------
(* The export pipeline, beside the request handlers *)

\* a queue the worker reads but does not empty
drained_not(q) == q

\* what stays queued once the worker has taken its batch
drained(q) == {}

\* BatchSpanProcessor worker: take the queued spans as one batch and hand
\* it to OTLPSpanExporter.export
FlushStart ==
    /\ flushPc = "idle"
    /\ queue # {}
    /\ batch' = queue
    /\ queue' = drained(queue)
    /\ spans' = [s \in DOMAIN spans |->
                    IF s \in queue THEN [spans[s] EXCEPT !.handed = @ + 1]
                    ELSE spans[s]]
    /\ flushPc' = "exporting"
    /\ UNCHANGED <<status, pc, loc, stack, exc, thrown, faults, dispatch, layer,
                   counter, hist, warned, metricPc, exporter>>

\* OTLPSpanExporter.export(batch) returns: the batch was delivered, or the
\* collector refused and the batch is dropped; either way it is gone.  The
\* call does not return while the collector does not answer.
FlushDone ==
    /\ flushPc = "exporting"
    /\ exporter # "hung"
    /\ batch' = {}
    /\ flushPc' = "idle"
    /\ UNCHANGED <<status, pc, loc, stack, exc, thrown, faults, dispatch, layer,
                   telemetry, metricPc, exporter>>

\* PeriodicExportingMetricReader: the 10 s timer fires, metrics are collected
MetricCollect ==
    /\ metricPc = "idle"
    /\ metricPc' = "exporting"
    /\ UNCHANGED <<status, pc, loc, stack, exc, thrown, faults, dispatch, layer,
                   telemetry, batch, flushPc, exporter>>

\* OTLPMetricExporter.export(...) returns
MetricDone ==
    /\ metricPc = "exporting"
    /\ exporter # "hung"
    /\ metricPc' = "idle"
    /\ UNCHANGED <<status, pc, loc, stack, exc, thrown, faults, dispatch, layer,
                   telemetry, batch, flushPc, exporter>>

\* the collector endpoint becomes reachable, unreachable or unresponsive
ExporterChange(x) ==
    /\ x # exporter
    /\ exporter' = x
    /\ UNCHANGED <<status, pc, loc, stack, exc, thrown, faults, dispatch, layer,
                   telemetry, batch, flushPc, metricPc>>

-----------------------------------------------------------------------------
\* a statement of the handler that thread t runs, random draws apart
HandlerStep(t) ==
    \/ TimeStart(t)
    \/ Enter(t)
    \/ SetAttribute(t)
    \/ BuildResponse(t)
    \/ Sleep(t)
    \/ Duration(t)
    \/ CounterAdd(t)
    \/ HistRecord(t)
    \/ Jsonify(t)
    \/ Exit(t)
    \/ Return(t)

\* the random draws of the handlers
Draw(t) ==
    \/ \E v1, v2, v3 \in RandInts : QueryData(t, v1, v2, v3)
    \/ \E ms \in SleepTimes : ChooseSleep(t, ms)

\* an exception on its way out of the handler
ErrorStep(t) ==
    \/ Unwind(t)
    \/ Fail(t)

\* The request handlers: requests are dispatched, run and may fail.
Next ==
    \/ \E t \in Threads, r \in Routes : Begin(t, r)
    \/ \E t \in Threads : HandlerStep(t)
    \/ \E t \in Threads : Draw(t)
    \/ \E t \in Threads, e \in Errors : Raise(t, e)
    \/ \E t \in Threads : ErrorStep(t)

Spec == Init /\ [][Next]_vars

\* The request handlers beside the export pipeline and a collector that
\* comes and goes.  The pipeline reads no response, so one value for every
\* random draw is enough here; no exception is raised into the handlers.
ExportDraw(t) ==
    \/ QueryData(t, 1, 1, 1)
    \/ ChooseSleep(t, 1004)

RequestStep(t) == HandlerStep(t) \/ ExportDraw(t) \/ ErrorStep(t)

ExportNext ==
    \/ \E t \in Threads, r \in Routes : Begin(t, r)
    \/ \E t \in Threads : HandlerStep(t)
    \/ \E t \in Threads : ExportDraw(t)
    \/ FlushStart
    \/ FlushDone
    \/ MetricCollect
    \/ MetricDone
    \/ \E x \in ExporterStates : ExporterChange(x)

ExportSpec == Init /\ [][ExportNext]_vars

\* The server runs every request it has dispatched; nothing is assumed of
\* the export pipeline or of the collector.
FairExportSpec == ExportSpec /\ \A t \in Threads : WF_vars(RequestStep(t))

-----------------------------------------------------------------------------
(* Vocabulary of the properties *)

InFlight(t) == status[t] \in {"run", "raise"}

\* the routes whose handler opens a span
SpanRoutes == {r \in Routes : \E i \in DOMAIN Handler(r) : Handler(r)[i].op = "enter"}

\* where the handler of route r has its (only) instruction op
IndexOf(r, op) == CHOOSE i \in DOMAIN Handler(r) : Handler(r)[i].op = op

\* the requests to route r that are being served and have run instruction op
Past(r, op) ==
    {t \in Threads : InFlight(t) /\ route[t] = r /\ pc[t] > IndexOf(r, op)}

\* no request to route r is being served
Quiet(r) == \A t \in Threads : InFlight(t) => route[t] # r

\* the request with id q has completed
Completed(q) == \A t \in Threads : InFlight(t) => rid[t] # q

\* the span the handler run by thread t opened as `span`
RootSpan(t) == <<rid[t], "span">>

IsOpen(s) == s \in DOMAIN spans /\ spans[s].ends = 0

-----------------------------------------------------------------------------
(* C1 *)

\* C1: in every interleaving of concurrent requests, a span is never ended
\* twice, every span of a completed request has been ended exactly once (none
\* stays open), only ended spans reach the exporter, and no span is handed to
\* the exporter more than once.
C1_ClosedOnceExportedOnce ==
    \A s \in DOMAIN spans :
        /\ spans[s].ends <= 1
        /\ Completed(spans[s].rid) => spans[s].ends = 1
        /\ spans[s].handed <= 1
        /\ (s \in queue \/ s \in batch \/ spans[s].handed > 0) => spans[s].ends = 1

\* Both spans of a completed /api/data request were ended once and handed to
\* the exporter once, while a concurrent request still has its span open.
C1_Witness ==
    \E s \in DOMAIN spans, u \in Threads :
        /\ spans[s].name = "database.query"
        /\ Completed(spans[s].rid)
        /\ spans[s].ends = 1 /\ spans[s].handed = 1
        /\ spans[spans[s].parent].ends = 1 /\ spans[spans[s].parent].handed = 1
        /\ InFlight(u) /\ IsOpen(RootSpan(u))

-----------------------------------------------------------------------------
(* C2 *)

\* C2: for each of the four routes, the counter of the route's endpoint label
\* counts every request that has run its add exactly once: it lies between
\* the successful requests plus those in flight past their add, and that
\* number plus the failed requests; so once N requests to the route have
\* completed, all successfully, and none is in flight, the counter is N.
C2_CounterCountsRequests ==
    \A r \in Routes :
        /\ counter[r] >= succeeded[r] + Cardinality(Past(r, "add"))
        /\ counter[r] <= succeeded[r] + Cardinality(Past(r, "add")) + failed[r]
        /\ (Quiet(r) /\ failed[r] = 0) => counter[r] = succeeded[r]

\* Two requests to one route have completed successfully and its counter is 2.
C2_Witness ==
    \E r \in Routes :
        Quiet(r) /\ failed[r] = 0 /\ succeeded[r] = 2 /\ counter[r] = 2

-----------------------------------------------------------------------------
(* C3 *)

-----------------------------------------------------------------------------
(* C4 *)

\* the exception of thread t's request was raised inside database.query
\* (pc stays at the statement that raised)
RaisedInQuery(t) ==
    /\ route[t] = "/api/data"
    /\ pc[t] > IndexOf("/api/data", "sleep") - 1
    /\ pc[t] < IndexOf("/api/data", "duration") - 1

\* C4: an exception raised in a handler while its span is open stays the
\* same exception while it unwinds; when the request-serving layer has it,
\* it is the exception that was raised, every span the request opened has
\* been ended once, and the request's span (and every span that was still
\* open) has status error.
C4_RaiseClosesSpansAndPropagates ==
    \A t \in Threads :
        /\ status[t] = "raise" => exc[t] = thrown[t] /\ thrown[t] # None
        /\ (status[t] = "done" /\ thrown[t] # None) =>
              /\ resp[t].error = thrown[t]
              /\ resp[t].status = 500
              /\ \A s \in DOMAIN spans :
                    spans[s].rid = rid[t] =>
                        /\ spans[s].ends = 1
                        /\ s = RootSpan(t) => spans[s].status = "error"
                        /\ s # RootSpan(t) =>
                              (spans[s].status = "error" <=> RaisedInQuery(t))

\* An exception raised inside the database.query span of get_data has
\* reached the layer: both spans are ended with status error.
C4_Witness ==
    \E t \in Threads :
        /\ status[t] = "done" /\ route[t] = "/api/data"
        /\ thrown[t] # None /\ resp[t].error = thrown[t]
        /\ <<rid[t], "db_span">> \in DOMAIN spans
        /\ spans[<<rid[t], "db_span">>].status = "error"
        /\ spans[<<rid[t], "db_span">>].ends = 1
        /\ spans[RootSpan(t)].status = "error"
        /\ spans[RootSpan(t)].ends = 1

-----------------------------------------------------------------------------
(* C5 *)

\* The response of each route when the collector is reachable, the random
\* draws being those of ExportDraw: the documented payloads, status 200.
ReachableResponse(r) ==
    CASE r = "/" ->
            [status |-> 200,
             body |-> [message |-> "Dynatrace OpenTelemetry Lab",
                       status |-> "running",
                       endpoints |-> <<"/", "/api/hello", "/api/data", "/api/slow">>],
             error |-> None]
      [] r = "/api/hello" ->
            [status |-> 200, body |-> [message |-> "Hello, World!"], error |-> None]
      [] r = "/api/data" ->
            [status |-> 200,
             body |-> [data |-> << [id |-> 1, value |-> 1], [id |-> 2, value |-> 1],
                                   [id |-> 3, value |-> 1] >>],
             error |-> None]
      [] r = "/api/slow" ->
            [status |-> 200,
             body |-> [message |-> "Slow operation completed", duration |-> 100],
             error |-> None]

\* C5: whatever the collector does (reachable, unreachable, silent, changing at any
\* point of the request), no request is failed by the export pipeline, and
\* every completed request has the body and the status code it has when the
\* collector is reachable.
C5_ResponseIgnoresExporter ==
    \A t \in Threads :
        /\ status[t] # "raise"
        /\ exc[t] = None
        /\ status[t] = "done" => resp[t] = ReachableResponse(route[t])

\* A request has completed with its 200 response while the collector is
\* unreachable and the batch holding the request's span is being exported.
C5_Witness ==
    \E t \in Threads :
        /\ status[t] = "done" /\ resp[t].status = 200
        /\ exporter = "down"
        /\ flushPc = "exporting"
        /\ RootSpan(t) \in batch

-----------------------------------------------------------------------------
(* C6 *)

\* C6: under fairness of the request handlers alone, no step of a request
\* ever waits (a request in flight always has an enabled step, whatever the
\* span worker, the metric reader and the collector are doing), and every
\* request in flight eventually completes.
C6_RequestsCompleteBesideFlush ==
    /\ [](\A t \in Threads : InFlight(t) => ENABLED RequestStep(t))
    /\ \A t \in Threads : InFlight(t) ~> (status[t] = "done")

\* A request has ended its span and completed while both exports were
\* blocked on a collector that does not answer: its span waits in the queue
\* behind the batch being exported.
C6_Witness ==
    \E t \in Threads :
        /\ status[t] = "done" /\ resp[t].status = 200
        /\ flushPc = "exporting" /\ metricPc = "exporting"
        /\ exporter = "hung"
        /\ RootSpan(t) \in queue

-----------------------------------------------------------------------------
(* C7 *)

\* C7 as stated: the duration sample is recorded only once the request's
\* span has been closed.
C7_Original ==
    \A t \in Threads :
        (status[t] = "run" /\ route[t] \in SpanRoutes
           /\ pc[t] > IndexOf(route[t], "record")) => ~ IsOpen(RootSpan(t))

\* C7, amended: for every request to a span-instrumented route the timer is
\* started before the request's span is opened; the counter is incremented
\* and the duration sample recorded while the span is still open and before
\* the response is produced; the response is produced while the span is
\* still open; the span is closed last, after the response is produced.
C7_RecordInsideSpan ==
    [][\A t \in Threads :
          /\ Enter(t) => loc[t].start
          /\ (CounterAdd(t) /\ route[t] \in SpanRoutes) =>
                IsOpen(RootSpan(t)) /\ loc[t].ret = NoResp
          /\ HistRecord(t) =>
                /\ IsOpen(RootSpan(t))
                /\ loc[t].ret = NoResp
                /\ counter[route[t]] > succeeded[route[t]]
          /\ (Jsonify(t) /\ route[t] \in SpanRoutes) =>
                /\ IsOpen(RootSpan(t))
                /\ pc[t] > IndexOf(route[t], "record")
          /\ (Exit(t) /\ Innermost(t) = RootSpan(t)) =>
                loc[t].ret # NoResp]_vars

\* A request has recorded its duration sample and its span is still open.
C7_Witness ==
    \E t \in Threads :
        /\ status[t] = "run" /\ route[t] = "/api/slow"
        /\ pc[t] > IndexOf(route[t], "record")
        /\ hist[route[t]].count > 0
        /\ IsOpen(RootSpan(t))

-----------------------------------------------------------------------------
(* C8 *)

\* C8: in every interleaving, each database.query span has as parent the
\* get_data span of its own request (never none, never another request's),
\* and the data array of every /api/data response has exactly 3 objects,
\* each with the fields id and value.
C8_QueryParentAndData ==
    /\ \A s \in DOMAIN spans :
          spans[s].name = "database.query" =>
              /\ spans[s].parent \in DOMAIN spans
              /\ spans[spans[s].parent].name = "get_data"
              /\ spans[spans[s].parent].rid = spans[s].rid
    /\ \A t \in Threads :
          (status[t] = "done" /\ route[t] = "/api/data" /\ resp[t].status = 200) =>
              /\ DOMAIN resp[t].body = {"data"}
              /\ Len(resp[t].body.data) = 3
              /\ \A i \in 1..3 : DOMAIN resp[t].body.data[i] = {"id", "value"}

\* Two /api/data requests ran at once: one has returned its data while the
\* other, whose get_data span was opened first, has its database.query span.
C8_Witness ==
    \E t, u \in Threads :
        /\ status[t] = "done" /\ route[t] = "/api/data" /\ resp[t].status = 200
        /\ InFlight(u) /\ route[u] = "/api/data"
        /\ rid[u] < rid[t]
        /\ <<rid[u], "db_span">> \in DOMAIN spans
        /\ <<rid[t], "db_span">> \in DOMAIN spans

-----------------------------------------------------------------------------
(* C9 *)

\* C9: no set_attribute is ever attempted on a span that has ended; a
\* span's attributes change only in a set_attribute step of the request that
\* opened it; the attributes of an ended span never change.
C9_AttributesFrozenOnClose ==
    [][/\ ~ warned'
       /\ \A s \in DOMAIN spans :
            /\ spans[s].ends > 0 => spans'[s].attrs = spans[s].attrs
            /\ spans'[s].attrs # spans[s].attrs =>
                  \E t \in Threads : rid[t] = spans[s].rid /\ SetAttribute(t)]_vars

\* The database.query span has ended with its two attributes while its
\* request goes on; another request has set an attribute of its own span.
C9_Witness ==
    \E s, x \in DOMAIN spans :
        /\ spans[s].name = "database.query"
        /\ spans[s].ends = 1
        /\ Cardinality(spans[s].attrs) = 2
        /\ ~ Completed(spans[s].rid)
        /\ spans[x].rid # spans[s].rid
        /\ spans[x].attrs # {}

-----------------------------------------------------------------------------
(* C10 *)

\* C10: a step of a request changes the counter and the histogram of no
\* route but its own; a request to / opens no span and records no sample,
\* and changes the counter of "/" only in its add, by exactly 1.
C10_RequestsTouchOwnRouteOnly ==
    [][\A t \in Threads :
          (pc'[t] # pc[t] \/ status'[t] # status[t]) =>
              /\ \A r \in Routes \ {route'[t]} :
                    counter'[r] = counter[r] /\ hist'[r] = hist[r]
              /\ route'[t] = "/" =>
                    /\ hist' = hist
                    /\ spans' = spans /\ stack' = stack /\ queue' = queue
                    /\ counter'["/"] =
                          IF CounterAdd(t) THEN counter["/"] + 1 ELSE counter["/"]
                    /\ status'[t] = "done" =>
                          counter'["/"] >= succeeded'["/"]]_vars

\* A request to / has completed beside a request to /api/hello: the counter
\* of each is 1, /api/hello has its sample, / has none and no span.
C10_Witness ==
    \E t \in Threads :
        /\ status[t] = "done" /\ route[t] = "/" /\ resp[t].status = 200
        /\ counter["/"] = 1 /\ hist["/"].count = 0
        /\ counter["/api/hello"] = 1 /\ hist["/api/hello"].count = 1
        /\ \A s \in DOMAIN spans : spans[s].rid # rid[t]

=============================================================================
